---- MODULE Spec2Model ----
(***************************************************************************)
(* Model of app.py: a Streamlit script that extracts a video identifier    *)
(* from a URL, fetches the captions of the video, and sends them to an LLM *)
(* to summarise them or to answer a question.                              *)
(*                                                                         *)
(* Python strings that the code splits or joins are sequences of           *)
(* one-character strings; strings the code only tests for emptiness (the   *)
(* API key, the question) are TLA+ strings.                                *)
(***************************************************************************)
EXTENDS Integers, Sequences, FiniteSets, TLC

VARIABLES
    p_in,             \* extract_video_id harness: the URL and the parts it was built from
    p_out,            \* extract_video_id harness: the returned value
    f_in,             \* get_transcript harness: the provider's reply
    f_out,            \* get_transcript harness: the outcome of the call
    video_url,        \* st.text_input "Paste YouTube Video Link here:"
    api_key,          \* st.sidebar.text_input "groq_api_key"
    user_question,    \* st.text_input "Ask a question:"
    action,           \* the user action that caused the latest script run
    video_id,         \* script global video_id of the latest run
    transcript_text,  \* script global transcript_text of the latest run
    screen,           \* the shell state the latest run ended in
    rendered,         \* the elements the latest run rendered
    calls,            \* the external calls of the latest run, in order
    parsed,           \* whether the latest run invoked extract_video_id
    crashed,          \* whether the latest run ended in an uncaught exception
    reply,            \* the transcript provider's reply in the latest run
    fetches           \* per video identifier, provider invocations in the session

vars == <<p_in, p_out, f_in, f_out, video_url, api_key, user_question, action,
          video_id, transcript_text, screen, rendered, calls, parsed, crashed,
          reply, fetches>>

parserVars == <<p_in, p_out>>
fetchVars == <<f_in, f_out>>
shellVars == <<video_url, api_key, user_question, action, video_id,
               transcript_text, screen, rendered, calls, parsed, crashed,
               reply, fetches>>

-----------------------------------------------------------------------------
(* Bounds *)

MaxIdLen == 2        \* longest video identifier and tracker value
MaxParams == 1       \* most query parameters before, and after, the v parameter
MaxFrags == 2        \* most caption fragments in one provider reply
MaxFragLen == 2      \* longest caption fragment text
MaxFetches == 3      \* most provider invocations in one session

-----------------------------------------------------------------------------
(* Python values *)

None == <<"None">>       \* Python None: no sequence of characters equals it
Unset == <<"Unset">>     \* a name the run did not assign

\* "is not None" in place of truthiness: "" passes
TruthyNotNone(x) == x # None

\* Python truthiness of an Optional[str]: None and "" are falsy
Truthy(x) == x # None /\ x # <<>>

SeqsUpTo(S, n) == UNION {[1..k -> S] : k \in 0..n}

SetMin(S) == CHOOSE x \in S : \A y \in S : x <= y

\* str.find(sub) + 1: the position of the first occurrence of sub, 0 if none
Find(s, sub) ==
    LET idxs == {i \in 1..(Len(s) - Len(sub) + 1) :
                    SubSeq(s, i, i + Len(sub) - 1) = sub}
    IN  IF idxs = {} THEN 0 ELSE SetMin(idxs)

\* sub in s
Contains(s, sub) == Find(s, sub) # 0

\* s.split(sep): the pieces between the non-overlapping occurrences of sep,
\* scanned left to right
RECURSIVE Split(_, _)
Split(s, sep) ==
    LET i == Find(s, sep)
    IN  IF i = 0 THEN <<s>>
        ELSE <<SubSeq(s, 1, i - 1)>> \o Split(SubSeq(s, i + Len(sep), Len(s)), sep)

\* sep.join(parts)
RECURSIVE Join(_, _)
Join(parts, sep) ==
    IF Len(parts) = 0 THEN <<>>
    ELSE IF Len(parts) = 1 THEN parts[1]
    ELSE parts[1] \o sep \o Join(Tail(parts), sep)

-----------------------------------------------------------------------------
(* String literals of the code and of the inputs *)

VEq == <<"v", "=">>
Amp == <<"&">>
Slash == <<"/">>
QMark == <<"?">>
Space == <<" ">>
YoutuBe == <<"y", "o", "u", "t", "u", ".", "b", "e">>

WatchBase == <<"h", "t", "t", "p", "s", ":", "/", "/", "w", "w", "w", ".",
               "y", "o", "u", "t", "u", "b", "e", ".", "c", "o", "m", "/",
               "w", "a", "t", "c", "h", "?">>
ShortBase == <<"h", "t", "t", "p", "s", ":", "/", "/">> \o YoutuBe \o Slash
SiEq == <<"?", "s", "i", "=">>

-----------------------------------------------------------------------------
(* extract_video_id *)

\* the youtu.be branch without the removal of the "?si=..." tracker
extract_video_id_keep_query(url) ==
    IF Contains(url, VEq)
    THEN Split(Split(url, VEq)[2], Amp)[1]
    ELSE IF Contains(url, YoutuBe)
         THEN LET segs == Split(url, Slash) IN segs[Len(segs)]
         ELSE None

\* no final "return None": any other string yields its last path segment
extract_video_id_no_else(url) ==
    IF Contains(url, VEq)
    THEN Split(Split(url, VEq)[2], Amp)[1]
    ELSE LET segs == Split(url, Slash)
         IN  Split(segs[Len(segs)], QMark)[1]

extract_video_id(url) ==
    IF Contains(url, VEq)
    THEN Split(Split(url, VEq)[2], Amp)[1]
    ELSE IF Contains(url, YoutuBe)
         THEN LET segs == Split(url, Slash)
              IN  Split(segs[Len(segs)], QMark)[1]
         ELSE None

\* characters of video identifiers and tracker values
IdChars == {"a", "v", "_"}
Ids == SeqsUpTo(IdChars, MaxIdLen) \ {<<>>}
Trackers == SeqsUpTo(IdChars, MaxIdLen)

\* query parameters other than v
Params == { <<"t", "=", "5", "s">>, <<"r", "v", "=", "1">> }
ParamLists == SeqsUpTo(Params, MaxParams)

\* the parameters before v, each followed by "&"
RECURSIVE Before(_)
Before(ps) == IF Len(ps) = 0 THEN <<>> ELSE ps[1] \o Amp \o Before(Tail(ps))

\* strings with neither "v=" nor "youtu.be"
OtherUrls ==
    { <<"h", "t", "t", "p", "s", ":", "/", "/", "v", "i", "m", "e", "o", ".",
        "c", "o", "m", "/", "1", "2", "?", "x", "=", "1">>,
      <<"y", "o", "u", "t", "u", "b", "e">>,
      <<"v">>, <<"=", "v">>, <<"a">> }

WatchInputs ==
    { [shape |-> "watch", id |-> i, pre |-> WatchBase \o Before(b), rest |-> Join(r, Amp),
       url |-> WatchBase \o Before(b) \o VEq \o i \o Amp \o Join(r, Amp)] :
      i \in Ids, b \in ParamLists, r \in ParamLists }

ShortInputs ==
    { [shape |-> "short", id |-> i, pre |-> ShortBase, rest |-> SiEq \o x,
       url |-> ShortBase \o i \o SiEq \o x] : i \in Ids, x \in Trackers }

OtherInputs ==
    { [shape |-> "other", id |-> None, pre |-> <<>>, rest |-> <<>>, url |-> u] :
      u \in OtherUrls }

ParserInputs == WatchInputs \cup ShortInputs \cup OtherInputs

-----------------------------------------------------------------------------
(* get_transcript *)

\* what YouTubeTranscriptApi.get_transcript does: it raises (error names the
\* exception) or returns a list of fragment records (error = "none")
ProviderErrors == {"TranscriptsDisabled", "VideoUnavailable", "ConnectionError", "InvalidVideoId"}

Returned(v) == [raised |-> FALSE, value |-> v]
Raised == [raised |-> TRUE, value |-> Unset]
NotCalled == [raised |-> FALSE, value |-> Unset]

Texts(items) == [i \in 1..Len(items) |-> items[i].text]

Malformed(items) == \E i \in 1..Len(items) : "text" \notin DOMAIN items[i]

\* the fragments concatenated with no separator
get_transcript_no_separator(vid, api_reply) ==
    IF api_reply.error # "none" THEN Returned(None)
    ELSE IF Malformed(api_reply.items) THEN Returned(None)
    ELSE Returned(Join(Texts(api_reply.items), <<>>))

\* the join outside the try block: a fragment without 'text' raises KeyError
get_transcript_join_outside_try(vid, api_reply) ==
    IF api_reply.error # "none" THEN Returned(None)
    ELSE IF Malformed(api_reply.items) THEN Raised
    ELSE Returned(Join(Texts(api_reply.items), Space))

get_transcript(vid, api_reply) ==
    IF api_reply.error # "none" THEN Returned(None)
    ELSE IF Malformed(api_reply.items) THEN Returned(None)
    ELSE Returned(Join(Texts(api_reply.items), Space))

Hello == <<"H", "e", "l", "l", "o">>
World == <<"w", "o", "r", "l", "d">>
HelloWorld == <<"H", "e", "l", "l", "o", " ", "w", "o", "r", "l", "d">>

FragChars == {"a", " "}
FragTexts == SeqsUpTo(FragChars, MaxFragLen) \cup {Hello, World}
Fragments == {[text |-> t] : t \in FragTexts}
NoTextFragment == [start |-> 0]

Ok(items) == [error |-> "none", items |-> items]
Err(e) == [error |-> e, items |-> <<>>]

FetchInputs ==
    {Ok(l) : l \in SeqsUpTo(Fragments \cup {NoTextFragment}, MaxFrags)}
    \cup {Err(e) : e \in ProviderErrors}

-----------------------------------------------------------------------------
(* The Streamlit script: every user action re-runs the whole script body *)

AbcId == <<"a", "b", "c", "1", "2", "3">>
\* https://www.youtube.com/watch?v=abc123&t=5s
UrlWatch == WatchBase \o VEq \o AbcId \o Amp \o <<"t", "=", "5", "s">>
\* https://youtu.be/va?si=av
UrlShort == ShortBase \o <<"v", "a">> \o SiEq \o <<"a", "v">>
\* https://vimeo.com/12?x=1
UrlOther == <<"h", "t", "t", "p", "s", ":", "/", "/", "v", "i", "m", "e", "o", ".",
              "c", "o", "m", "/", "1", "2", "?", "x", "=", "1">>
\* https://youtu.be/ : the last path segment is empty
UrlNoId == ShortBase

ShellUrls == {<<>>, UrlWatch, UrlShort, UrlOther, UrlNoId}
Keys == {"", "dummy"}
Questions == {"", "What is it about?"}

TestText == <<"T", "e", "s", "t">>
VideoText == <<"v", "i", "d", "e", "o", ".">>
TestVideo == <<"T", "e", "s", "t", " ", "v", "i", "d", "e", "o", ".">>

ShellReplies ==
    { Err("TranscriptsDisabled"), Err("ConnectionError"),
      Ok(<<>>), Ok(<<[text |-> <<>>]>>), Ok(<<[text |-> <<>>], [text |-> <<>>]>>),
      Ok(<<[text |-> TestText], [text |-> VideoText]>>),
      Ok(<<[text |-> TestText], NoTextFragment>>) }

\* the identifiers the URLs above yield
ShellIds == {v \in {extract_video_id(u) : u \in ShellUrls \ {<<>>}} : Truthy(v)}

Call(svc, args) == [svc |-> svc, args |-> args]

\* line 90: "if video_url and api_key", tested on the URL alone
InputsPresent_url_only(url, key) == url # <<>>

InputsPresent(url, key) == url # <<>> /\ key # ""

\* the run keeps the transcript of the previous run of the same video
FetchCalls_cached(vid) ==
    IF vid = video_id /\ Truthy(transcript_text) THEN <<>>
    ELSE <<Call("get_transcript", <<vid>>)>>

\* the run asks the provider a second time
FetchCalls_retry(vid) ==
    <<Call("get_transcript", <<vid>>), Call("get_transcript", <<vid>>)>>

\* line 99 and line 34: the provider is invoked once with the identifier
FetchCalls(vid) == <<Call("get_transcript", <<vid>>)>>

Outcome(vid, text, scr, rend, cs, p, cr, rep) ==
    [video_id |-> vid, transcript_text |-> text, screen |-> scr, rendered |-> rend,
     calls |-> cs, parsed |-> p, crashed |-> cr, reply |-> rep]

\* rendered by every run: lines 11, 84, 88
Always == {"title", "key_input", "url_input"}

\* lines 102-123: the three tabs. An exception of the LLM call is not caught:
\* it ends the run where it is raised.
Tabs(key, question, clicked, vid, text, api_reply, sumOK, ansOK) ==
    LET sumCalls == IF clicked THEN <<Call("generate_summary", <<text, key>>)>> ELSE <<>>
        sumRaised == clicked /\ ~sumOK
        asks == ~sumRaised /\ question # ""
        ansCalls == IF asks THEN <<Call("ask_question", <<text, question, key>>)>> ELSE <<>>
        ansRaised == asks /\ ~ansOK
        rend == Always \cup {"video", "tabs", "summary_button"}
                \cup (IF clicked /\ sumOK THEN {"summary"} ELSE {})
                \cup (IF ~sumRaised THEN {"question_input"} ELSE {})
                \cup (IF asks /\ ansOK THEN {"answer"} ELSE {})
                \cup (IF ~sumRaised /\ ~ansRaised THEN {"transcript_area"} ELSE {})
                \cup (IF sumRaised \/ ansRaised THEN {"exception"} ELSE {})
    IN  Outcome(vid, text, "Ready", rend, FetchCalls(vid) \o sumCalls \o ansCalls,
                TRUE, sumRaised \/ ansRaised, api_reply)

\* lines 90-130: the script body
Script(url, key, question, clicked, api_reply, sumOK, ansOK) ==
    IF InputsPresent(url, key)
    THEN LET vid == extract_video_id(url) IN
         IF Truthy(vid)
         THEN LET res == get_transcript(vid, api_reply) IN
              IF res.raised
              THEN Outcome(vid, Unset, "Fetching", Always \cup {"video", "exception"},
                           FetchCalls(vid), TRUE, TRUE, api_reply)
              ELSE IF Truthy(res.value)
              THEN Tabs(key, question, clicked, vid, res.value, api_reply, sumOK, ansOK)
              ELSE Outcome(vid, res.value, "NoTranscript",
                           Always \cup {"video", "error_no_transcript"},
                           FetchCalls(vid), TRUE, FALSE, api_reply)
         ELSE Outcome(vid, Unset, "InvalidURL", Always \cup {"error_invalid_url"},
                      <<>>, TRUE, FALSE, Unset)
    ELSE IF key = ""
    THEN Outcome(Unset, Unset, "Idle", Always \cup {"key_warning"}, <<>>, FALSE, FALSE, Unset)
    ELSE Outcome(Unset, Unset, "Idle", Always, <<>>, FALSE, FALSE, Unset)

Svcs(cs) == [i \in 1..Len(cs) |-> cs[i].svc]

FetchCount(cs, v) ==
    Cardinality({i \in 1..Len(cs) : cs[i].svc = "get_transcript" /\ cs[i].args = <<v>>})

RECURSIVE SumOver(_, _)
SumOver(f, S) ==
    IF S = {} THEN 0
    ELSE LET x == CHOOSE y \in S : TRUE IN f[x] + SumOver(f, S \ {x})

TotalFetches == SumOver(fetches, DOMAIN fetches)

\* One run of the script with the widgets holding url, key and question;
\* clicked is the value st.button returns in this run. A text_input the run
\* did not render loses its value; after an uncaught exception the framework
\* may keep it.
Run(act, url, key, question, clicked) ==
    \E o \in {Script(url, key, question, clicked, api_reply, sumOK, ansOK) :
                 api_reply \in ShellReplies, sumOK \in BOOLEAN, ansOK \in BOOLEAN},
       keep \in BOOLEAN :
        /\ TotalFetches < MaxFetches
        /\ video_url' = url
        /\ api_key' = key
        /\ user_question' = IF "question_input" \in o.rendered THEN question
                            ELSE IF o.crashed /\ keep THEN question ELSE ""
        /\ action' = act
        /\ video_id' = o.video_id
        /\ transcript_text' = o.transcript_text
        /\ screen' = o.screen
        /\ rendered' = o.rendered
        /\ calls' = o.calls
        /\ parsed' = o.parsed
        /\ crashed' = o.crashed
        /\ reply' = o.reply
        /\ fetches' = [v \in DOMAIN fetches |-> fetches[v] + FetchCount(o.calls, v)]
        /\ UNCHANGED <<parserVars, fetchVars>>

\* the first run, on page load: every widget is empty
ShellIdle ==
    /\ video_url = <<>>
    /\ api_key = ""
    /\ user_question = ""
    /\ action = "load"
    /\ video_id = Unset
    /\ transcript_text = Unset
    /\ screen = "Idle"
    /\ rendered = Always \cup {"key_warning"}
    /\ calls = <<>>
    /\ parsed = FALSE
    /\ crashed = FALSE
    /\ reply = Unset
    /\ fetches = [v \in ShellIds |-> 0]

Init ==
    /\ p_in = Unset
    /\ p_out = Unset
    /\ f_in = Unset
    /\ f_out = NotCalled
    /\ ShellIdle

SubmitUrl ==
    \E u \in ShellUrls :
        /\ u # video_url
        /\ Run("submit_url", u, api_key, user_question, FALSE)

EnterKey ==
    \E k \in Keys :
        /\ k # api_key
        /\ Run("enter_key", video_url, k, user_question, FALSE)

ClickSummarize ==
    /\ "summary_button" \in rendered
    /\ Run("summarize", video_url, api_key, user_question, TRUE)

AskQuestion ==
    /\ "question_input" \in rendered
    /\ \E q \in Questions :
          /\ q # user_question
          /\ Run("ask", video_url, api_key, q, FALSE)

Next == SubmitUrl \/ EnterKey \/ ClickSummarize \/ AskQuestion

Spec == Init /\ [][Next]_vars

-----------------------------------------------------------------------------
(* The two functions on their own: an input is drawn, the function is applied *)

ParserInit ==
    /\ p_in \in ParserInputs
    /\ p_out = Unset
    /\ f_in = Unset
    /\ f_out = NotCalled
    /\ ShellIdle

Parse ==
    /\ p_out = Unset
    /\ p_out' = extract_video_id(p_in.url)
    /\ UNCHANGED <<p_in, fetchVars, shellVars>>

SpecParser == ParserInit /\ [][Parse]_vars

FetchInit ==
    /\ f_in \in FetchInputs
    /\ f_out = NotCalled
    /\ p_in = Unset
    /\ p_out = Unset
    /\ ShellIdle

Fetch ==
    /\ f_out = NotCalled
    /\ f_out' = get_transcript(<<"a">>, f_in)
    /\ UNCHANGED <<f_in, parserVars, shellVars>>

SpecFetch == FetchInit /\ [][Fetch]_vars

-----------------------------------------------------------------------------
(* extract_video_id: claims *)

Parsed == p_out # Unset

\* C1: for every URL that contains "v=ID&..." extract_video_id returns exactly
\* ID, whatever text precedes the "v=" marker.
C1_WatchReturnsId ==
    (Parsed /\ p_in.shape = "watch") => p_out = p_in.id

\* C2: for every URL "https://youtu.be/ID?si=xyz" extract_video_id returns
\* exactly ID, the last path segment without the "?..." query.
C2_ShortReturnsId ==
    (Parsed /\ p_in.shape = "short") => p_out = p_in.id

\* a youtu.be URL whose identifier and tracker both hold the letter v was parsed
C2_Witness ==
    /\ Parsed
    /\ p_in.shape = "short"
    /\ p_in.url = ShortBase \o <<"v", "a">> \o SiEq \o <<"a", "v">>
    /\ p_out = <<"v", "a">>

-----------------------------------------------------------------------------
(* get_transcript: claims *)

Fetched == f_out # NotCalled

RECURSIVE TotalLen(_)
TotalLen(ts) == IF Len(ts) = 0 THEN 0 ELSE Len(ts[1]) + TotalLen(Tail(ts))

\* where fragment i starts in the joined string
Start(ts, i) == TotalLen(SubSeq(ts, 1, i - 1)) + i

SpaceJoined(ts, out) ==
    /\ Len(out) = TotalLen(ts) + (IF Len(ts) = 0 THEN 0 ELSE Len(ts) - 1)
    /\ \A i \in 1..Len(ts) :
          /\ SubSeq(out, Start(ts, i), Start(ts, i) + Len(ts[i]) - 1) = ts[i]
          /\ i > 1 => out[Start(ts, i) - 1] = " "

ProviderSucceeded(r) == r.error = "none" /\ ~Malformed(r.items)

\* C4: when the provider returns fragments without error, get_transcript
\* returns their texts in received order joined by single spaces; the
\* fragments "Hello", "world" give exactly "Hello world".
C4_JoinedBySingleSpaces ==
    (Fetched /\ ProviderSucceeded(f_in)) =>
        /\ ~f_out.raised
        /\ SpaceJoined(Texts(f_in.items), f_out.value)
        /\ f_in.items = <<[text |-> Hello], [text |-> World]>> => f_out.value = HelloWorld

C4_Witness ==
    /\ Fetched
    /\ f_in = Ok(<<[text |-> Hello], [text |-> World]>>)
    /\ f_out = Returned(HelloWorld)

\* C5: when the provider raises any error, or a fragment is malformed,
\* get_transcript returns the one "unavailable" signal and raises nothing.
C5_ErrorsCollapse ==
    (Fetched /\ ~ProviderSucceeded(f_in)) => f_out = Returned(None)

C5_Witness ==
    /\ Fetched
    /\ f_in = Ok(<<[text |-> Hello], NoTextFragment>>)
    /\ f_out = Returned(None)

-----------------------------------------------------------------------------
(* The script: claims *)

LlmCalls(cs) == {i \in 1..Len(cs) : cs[i].svc \in {"generate_summary", "ask_question"}}
Invoked(cs, svc) == \E i \in 1..Len(cs) : cs[i].svc = svc

\* C3: in a run with URL and key present whose URL contains neither "v=" nor
\* "youtu.be", extract_video_id returns None and the run ends in
\* Error(InvalidURL): the message is rendered, no provider is called.
C3_InvalidUrlStops ==
    (video_url # <<>> /\ api_key # "" /\ ~Contains(video_url, VEq)
        /\ ~Contains(video_url, YoutuBe)) =>
        /\ parsed
        /\ video_id = None
        /\ screen = "InvalidURL"
        /\ "error_invalid_url" \in rendered
        /\ calls = <<>>

C3_Witness ==
    /\ action = "submit_url"
    /\ video_url = UrlOther
    /\ api_key = "dummy"
    /\ screen = "InvalidURL"

\* C6: in a run in which the URL or the API key is absent the shell is Idle:
\* it renders the URL prompt, and the key warning when the key is absent, and
\* invokes neither the URL parser nor the transcript fetcher nor the LLM.
C6_IdleTakesNoAction ==
    (video_url = <<>> \/ api_key = "") =>
        /\ screen = "Idle"
        /\ ~parsed
        /\ calls = <<>>
        /\ "url_input" \in rendered
        /\ api_key = "" => "key_warning" \in rendered
        /\ rendered \subseteq Always \cup {"key_warning"}

\* the key was cleared while a video was shown: key missing only
C6_Witness ==
    /\ action = "enter_key"
    /\ api_key = ""
    /\ video_url = UrlWatch
    /\ screen = "Idle"
    /\ fetches[AbcId] > 0

ValidIdRun == video_url # <<>> /\ api_key # "" /\ Truthy(video_id)

\* the provider returned fragments, each with a text, that join to a
\* non-empty string
NonEmptyTranscript(r) ==
    /\ ProviderSucceeded(r)
    /\ \/ Len(r.items) >= 2
       \/ Len(r.items) = 1 /\ r.items[1].text # <<>>

\* C7 as stated: with URL, key and a valid identifier, the run reaches Ready
\* exactly when the fetch succeeded and Error(NoTranscript) exactly when it
\* failed.
C7_Original ==
    ValidIdRun =>
        /\ screen = "Ready" <=> ProviderSucceeded(reply)
        /\ screen = "NoTranscript" <=> ~ProviderSucceeded(reply)

\* C7 amended: with URL, key and a valid identifier, the run reaches Ready
\* exactly when the fetcher returned a non-empty transcript, and
\* Error(NoTranscript) exactly when the fetch failed or the transcript is empty.
C7_ReadyIffNonEmptyTranscript ==
    ValidIdRun =>
        /\ screen = "Ready" <=> NonEmptyTranscript(reply)
        /\ screen = "NoTranscript" <=> ~NonEmptyTranscript(reply)
        /\ screen = "Ready" <=> "tabs" \in rendered
        /\ screen = "NoTranscript" <=> "error_no_transcript" \in rendered

C7_Witness ==
    /\ video_url = UrlWatch
    /\ api_key = "dummy"
    /\ video_id = AbcId
    /\ reply = Ok(<<[text |-> TestText], [text |-> VideoText]>>)
    /\ transcript_text = TestVideo
    /\ screen = "Ready"
    /\ {"tabs", "summary_button", "question_input", "transcript_area"} \subseteq rendered

C10_Original ==
    /\ action = "summarize" => ~Invoked(calls, "ask_question")
    /\ action = "ask" => ~Invoked(calls, "generate_summary")

====
